---- MODULE Spec2Model ----
(***************************************************************************)
(* Habit Tracker Pro, script.js: the DOMContentLoaded listener that looks  *)
(* up the elements 'mainButton' and 'output' and, when both exist, attaches *)
(* a click listener that overwrites output.innerHTML with a greeting and    *)
(* the local time of day.                                                   *)
(*                                                                          *)
(* The host page is modelled as far as the script observes it: the         *)
(* document's id lookup table, each element's innerHTML and click           *)
(* listeners, the console, uncaught exceptions, the system clock            *)
(* (milliseconds since the epoch), the time zone offset and the locale's    *)
(* hour cycle.                                                              *)
(***************************************************************************)
EXTENDS Integers, Sequences, FiniteSets, TLC

VARIABLES
    readyState,   \* "loading" until DOMContentLoaded has been dispatched
    doc,          \* id -> element in the document with that id, or NULL
    innerHTML,    \* element -> its markup content
    listeners,    \* element -> sequence of attached click listeners
    mainButton,   \* closure constant of the listener (script.js:6)
    output,       \* closure constant of the listener (script.js:7)
    console,      \* sequence of messages logged
    uncaught,     \* sequence of uncaught exceptions
    clock,        \* system clock, ms since the epoch (UTC)
    tzOffset,     \* local time zone offset, ms east of UTC
    hour12,       \* TRUE: the locale formats with a 12-hour cycle
    nextElem,     \* next element identity the page can create
    initialHTML,  \* history: element -> content it was created with
    initAt,       \* history: clock when the DOMContentLoaded listener ran
    clickAt,      \* history: clock of the latest activation of the control
    prevClickAt,  \* history: clock of the activation before that one
    ticks,        \* history: number of clock steps taken
    mutations,    \* history: number of document mutations made by the page
    storage,      \* the origin's persistent storage (localStorage), key -> value
    seen,         \* history: kinds of event this page has gone through
    lastWrites    \* history: innerHTML assignments made by the latest activation

vars == << readyState, doc, innerHTML, listeners, mainButton, output, console,
           uncaught, clock, tzOffset, hour12, nextElem, initialHTML, initAt,
           clickAt, prevClickAt, ticks, mutations, storage, seen,
           lastWrites >>

(***************************************************************************)
(* Bounds of the model.                                                    *)
(***************************************************************************)
MaxElems == 3
MaxTicks == 2
MaxMutations == 2

(***************************************************************************)
(* Values.                                                                 *)
(***************************************************************************)
NULL == 0
NONE == -1
Elements == 1 .. MaxElems
Ids == {"mainButton", "output"}

MsPerSecond == 1000
SecondsPerDay == 86400

\* Clock values the page is opened at (13:30:00.000 and 22:59:59.500 UTC of
\* the first day, which are 14:30:00.000 and 23:59:59.500 local time), the
\* steps the clock advances by (one second, twelve hours, one day) and the
\* local time zone (one hour east of UTC).
StartClocks == {48600000, 82799500}
ClockSteps == {1000, 43200000, 86400000}
TzOffsets == {3600000}
InitialContents == {"", "<p>Ready</p>"}
ButtonLabel == "Click Me"
ContentsFor(id) == IF id = "mainButton" THEN {ButtonLabel} ELSE InitialContents

StartupNotice == "Habit Tracker Pro loaded successfully!"
HelloText == "Hello from Habit Tracker Pro!"
TypeError == "TypeError"

(***************************************************************************)
(* String helpers.                                                         *)
(***************************************************************************)
Contains(s, sub) ==
    \E i \in 1 .. (Len(s) - Len(sub) + 1) : SubSeq(s, i, i + Len(sub) - 1) = sub

Pad2(n) == IF n < 10 THEN "0" \o ToString(n) ELSE ToString(n)

(***************************************************************************)
(* Date.prototype.toLocaleTimeString() of the instant t: the local time of *)
(* day with second resolution, in the locale's hour cycle.                 *)
(***************************************************************************)
SecondOfDay(t) == ((t + tzOffset) \div MsPerSecond) % SecondsPerDay

\* Variant: the day period is left out of the 12-hour format
DayPeriod_Dropped(h) == ""

DayPeriod(h) == IF h < 12 THEN " AM" ELSE " PM"


\* Variant: the hour is not reduced to the 12-hour cycle
Hour12_NoWrap(h) == h

Hour12(h) == IF h % 12 = 0 THEN 12 ELSE h % 12

toLocaleTimeString(t) ==
    LET sod == SecondOfDay(t)
        h == sod \div 3600
        m == (sod % 3600) \div 60
        s == sod % 60
    IN  IF hour12
        THEN ToString(Hour12(h)) \o ":" \o Pad2(m) \o ":" \o Pad2(s) \o DayPeriod(h)
        ELSE Pad2(h) \o ":" \o Pad2(m) \o ":" \o Pad2(s)

\* Variant: the date is created once, when the DOMContentLoaded listener runs
NewDate_AtLoad == initAt

\* new Date(): the clock at the moment the expression is evaluated
NewDate == clock

\* Variant: the fixed text is misspelt
Greeting_Typo(t) ==
    "<p>Hello from Habit Tracker! Button clicked at " \o toLocaleTimeString(t) \o "</p>"

\* The markup the click listener builds (script.js:11)
Greeting(t) ==
    "<p>" \o HelloText \o " Button clicked at " \o toLocaleTimeString(t) \o "</p>"

\* Variants: the markup is added to the content (innerHTML +=), after or
\* before what is there
SetInnerHTML_Append(old, markup) == old \o markup

SetInnerHTML_Prepend(old, markup) == markup \o old

\* The assignment to output.innerHTML (script.js:11): the content is replaced
SetInnerHTML(old, markup) == markup

\* document.getElementById (script.js:6-7)
getElementById(id) == doc[id]

\* Variants: the guard tests one element only, or either element
BothFound_ButtonOnly(mb, out) == mb # NULL

BothFound_Or(mb, out) == mb # NULL \/ out # NULL

\* The guard of script.js:9
BothFound(mb, out) == mb # NULL /\ out # NULL

(***************************************************************************)
(* The click listener (script.js:10-12), run once for every listener       *)
(* attached to the clicked element.  Assigning to a property of null       *)
(* raises a TypeError that nothing catches.                                *)
(***************************************************************************)
\* Variant: the listener also relabels the control it was attached to
RECURSIVE RunListeners_AlsoButton(_, _)
RunListeners_AlsoButton(n, st) ==
    IF n = 0 THEN st
    ELSE LET after ==
                 IF output = NULL
                 THEN [st EXCEPT !.errs = Append(@, TypeError)]
                 ELSE [st EXCEPT !.html[output] =
                                    SetInnerHTML(@, Greeting(NewDate)),
                                 !.html[mainButton] = "Clicked",
                                 !.writes = @ + 1]
         IN  RunListeners_AlsoButton(n - 1, after)

\* Variant: the listener looks the display target up when it runs
RECURSIVE RunListeners_LookupAtClick(_, _)
RunListeners_LookupAtClick(n, st) ==
    IF n = 0 THEN st
    ELSE LET target == getElementById("output")
             after ==
                 IF target = NULL
                 THEN [st EXCEPT !.errs = Append(@, TypeError)]
                 ELSE [st EXCEPT !.html[target] =
                                    SetInnerHTML(@, Greeting(NewDate)),
                                 !.writes = @ + 1]
         IN  RunListeners_LookupAtClick(n - 1, after)

RECURSIVE RunListeners(_, _)
RunListeners(n, st) ==
    IF n = 0 THEN st
    ELSE LET after ==
                 IF output = NULL
                 THEN [st EXCEPT !.errs = Append(@, TypeError)]
                 ELSE [st EXCEPT !.html[output] =
                                    SetInnerHTML(@, Greeting(NewDate)),
                                 !.writes = @ + 1]
         IN  RunListeners(n - 1, after)

\* Variant: the listener is registered with { once: true }
AfterDispatch_Once(ls, e) == [ls EXCEPT ![e] = << >>]

\* addEventListener('click', f) without options (script.js:10): dispatching
\* an event leaves the listeners of the element attached
AfterDispatch(ls, e) == ls

TypeOK ==
    /\ readyState \in {"loading", "interactive"}
    /\ doc \in [Ids -> Elements \cup {NULL}]
    /\ DOMAIN innerHTML = Elements
    /\ DOMAIN listeners = Elements
    /\ mainButton \in Elements \cup {NULL}
    /\ output \in Elements \cup {NULL}
    /\ clock \in Nat
    /\ tzOffset \in TzOffsets
    /\ hour12 \in BOOLEAN
    /\ nextElem \in 1 .. (MaxElems + 1)

\* Variant: the script does not wait for DOMContentLoaded; it looks the
\* elements up and attaches the listener as soon as it is evaluated
Init_Eager ==
    /\ readyState = "loading"
    /\ \E hasButton \in BOOLEAN, hasOutput \in BOOLEAN, c \in InitialContents :
          /\ doc = [id \in Ids |->
                      IF id = "mainButton"
                      THEN (IF hasButton THEN 1 ELSE NULL)
                      ELSE (IF hasOutput THEN 2 ELSE NULL)]
          /\ innerHTML = [e \in Elements |->
                            IF e = 1 THEN ButtonLabel
                            ELSE IF e = 2 /\ hasOutput THEN c ELSE ""]
          /\ listeners = [e \in Elements |->
                            IF e = 1 /\ hasButton /\ hasOutput
                            THEN << "click" >> ELSE << >>]
          /\ mainButton = IF hasButton THEN 1 ELSE NULL
          /\ output = IF hasOutput THEN 2 ELSE NULL
    /\ initialHTML = innerHTML
    /\ console = << >>
    /\ uncaught = << >>
    /\ clock \in StartClocks
    /\ tzOffset \in TzOffsets
    /\ hour12 \in BOOLEAN
    /\ nextElem = 3
    /\ initAt = NONE
    /\ clickAt = NONE
    /\ prevClickAt = NONE
    /\ ticks = 0
    /\ mutations = 0
    /\ storage = << >>
    /\ seen = {}
    /\ lastWrites = 0

(***************************************************************************)
(* The page as the script finds it when it is evaluated: the document is   *)
(* still loading, and each of the two elements may or may not be there.    *)
(***************************************************************************)
Init ==
    /\ readyState = "loading"
    /\ \E hasButton \in BOOLEAN, hasOutput \in BOOLEAN, c \in InitialContents :
          /\ doc = [id \in Ids |->
                      IF id = "mainButton"
                      THEN (IF hasButton THEN 1 ELSE NULL)
                      ELSE (IF hasOutput THEN 2 ELSE NULL)]
          /\ innerHTML = [e \in Elements |->
                            IF e = 1 THEN ButtonLabel
                            ELSE IF e = 2 /\ hasOutput THEN c ELSE ""]
    /\ initialHTML = innerHTML
    /\ listeners = [e \in Elements |-> << >>]
    /\ mainButton = NULL
    /\ output = NULL
    /\ console = << >>
    /\ uncaught = << >>
    /\ clock \in StartClocks
    /\ tzOffset \in TzOffsets
    /\ hour12 \in BOOLEAN
    /\ nextElem = 3
    /\ initAt = NONE
    /\ clickAt = NONE
    /\ prevClickAt = NONE
    /\ ticks = 0
    /\ mutations = 0
    /\ storage = << >>
    /\ seen = {}
    /\ lastWrites = 0

\* Variant: initialization shows a first greeting as soon as it has bound
DOMContentLoaded_Greets ==
    /\ readyState = "loading"
    /\ readyState' = "interactive"
    /\ console' = Append(console, StartupNotice)
    /\ LET mb == getElementById("mainButton")
           out == getElementById("output")
       IN  /\ mainButton' = mb
           /\ output' = out
           /\ IF BothFound(mb, out)
              THEN IF mb = NULL
                   THEN /\ uncaught' = Append(uncaught, TypeError)
                        /\ UNCHANGED << listeners, innerHTML >>
                   ELSE /\ listeners' = [listeners EXCEPT ![mb] = Append(@, "click")]
                        /\ innerHTML' = [innerHTML EXCEPT ![out] =
                                            SetInnerHTML(@, Greeting(NewDate))]
                        /\ UNCHANGED uncaught
              ELSE UNCHANGED << listeners, uncaught, innerHTML >>
    /\ initAt' = clock
    /\ UNCHANGED << doc, clock, tzOffset, hour12, nextElem,
                    initialHTML, clickAt, prevClickAt, ticks, mutations,
                    storage, seen, lastWrites >>

\* Variant: the click listener is attached twice
DOMContentLoaded_Twice ==
    /\ readyState = "loading"
    /\ readyState' = "interactive"
    /\ console' = Append(console, StartupNotice)
    /\ LET mb == getElementById("mainButton")
           out == getElementById("output")
       IN  /\ mainButton' = mb
           /\ output' = out
           /\ IF BothFound(mb, out)
              THEN IF mb = NULL
                   THEN /\ uncaught' = Append(uncaught, TypeError)
                        /\ UNCHANGED listeners
                   ELSE /\ listeners' = [listeners EXCEPT
                                           ![mb] = @ \o << "click", "click" >>]
                        /\ UNCHANGED uncaught
              ELSE UNCHANGED << listeners, uncaught >>
    /\ initAt' = clock
    /\ UNCHANGED << doc, innerHTML, clock, tzOffset, hour12, nextElem,
                    initialHTML, clickAt, prevClickAt, ticks, mutations,
                    storage, seen, lastWrites >>

(***************************************************************************)
(* The DOMContentLoaded listener (script.js:2-14), dispatched once by the  *)
(* browser when the document has been parsed.                              *)
(***************************************************************************)
DOMContentLoaded ==
    /\ readyState = "loading"
    /\ readyState' = "interactive"
    /\ console' = Append(console, StartupNotice)
    /\ LET mb == getElementById("mainButton")
           out == getElementById("output")
       IN  /\ mainButton' = mb
           /\ output' = out
           /\ IF BothFound(mb, out)
              THEN IF mb = NULL
                   THEN /\ uncaught' = Append(uncaught, TypeError)
                        /\ UNCHANGED listeners
                   ELSE /\ listeners' = [listeners EXCEPT ![mb] = Append(@, "click")]
                        /\ UNCHANGED uncaught
              ELSE UNCHANGED << listeners, uncaught >>
    /\ initAt' = clock
    /\ UNCHANGED << doc, innerHTML, clock, tzOffset, hour12, nextElem,
                    initialHTML, clickAt, prevClickAt, ticks, mutations,
                    storage, seen, lastWrites >>

\* What a click on element e, found under the given id, is for the page:
\* "early" on the control before DOMContentLoaded, "late" on a control
\* other than the one initialization found, "replaced" on the control found
\* at initialization when the display target found with it has left the
\* document and the id 'output' has a new element
EventKinds(id, e) ==
    {k \in {"early", "late", "replaced"} :
        \/ k = "early" /\ readyState = "loading" /\ id = "mainButton"
        \/ k = "late" /\ readyState = "interactive" /\ id = "mainButton"
                      /\ e # mainButton
        \/ k = "replaced" /\ readyState = "interactive" /\ e = mainButton
                          /\ output # NULL /\ doc["output"] \notin {NULL, output}}

\* Variant: the greeting is written by a listener that looks both elements
\* up at the time of the click instead of using those found at initialization
Click_LateLookup(id) ==
    /\ doc[id] # NULL
    /\ LET e == doc[id]
           n == IF readyState = "interactive" /\ id = "mainButton" THEN 1 ELSE 0
           res == RunListeners_LookupAtClick(n, [html |-> innerHTML,
                                                 errs |-> uncaught,
                                                 writes |-> 0])
       IN  /\ innerHTML' = res.html
           /\ uncaught' = res.errs
           /\ listeners' = AfterDispatch(listeners, e)
           /\ IF readyState = "interactive" /\ e = mainButton
              THEN /\ clickAt' = clock
                   /\ prevClickAt' = clickAt
                   /\ lastWrites' = res.writes
              ELSE UNCHANGED << clickAt, prevClickAt, lastWrites >>
           /\ seen' = seen \cup EventKinds(id, e)
    /\ UNCHANGED << readyState, doc, mainButton, output, console, clock,
                    tzOffset, hour12, nextElem, initialHTML, initAt, ticks,
                    mutations, storage >>

(***************************************************************************)
(* The user clicks the element that currently has the given id; the        *)
(* browser runs every click listener attached to that element.  A click on *)
(* the element the component found as its control is an activation.        *)
(***************************************************************************)
Click(id) ==
    /\ doc[id] # NULL
    /\ LET e == doc[id]
           n == Len(listeners[e])
           res == RunListeners(n, [html |-> innerHTML, errs |-> uncaught,
                                   writes |-> 0])
       IN  /\ innerHTML' = res.html
           /\ uncaught' = res.errs
           /\ listeners' = AfterDispatch(listeners, e)
           /\ IF readyState = "interactive" /\ e = mainButton
              THEN /\ clickAt' = clock
                   /\ prevClickAt' = clickAt
                   /\ lastWrites' = res.writes
              ELSE UNCHANGED << clickAt, prevClickAt, lastWrites >>
           /\ seen' = seen \cup EventKinds(id, e)
    /\ UNCHANGED << readyState, doc, mainButton, output, console, clock,
                    tzOffset, hour12, nextElem, initialHTML, initAt, ticks,
                    mutations, storage >>

(***************************************************************************)
(* The system clock advances.                                              *)
(***************************************************************************)
Tick(d) ==
    /\ ticks < MaxTicks
    /\ clock' = clock + d
    /\ ticks' = ticks + 1
    /\ UNCHANGED << readyState, doc, innerHTML, listeners, mainButton, output,
                    console, uncaught, tzOffset, hour12, nextElem, initialHTML,
                    initAt, clickAt, prevClickAt, mutations, storage, seen,
                    lastWrites >>

(***************************************************************************)
(* The page (its parser or another script) inserts a new element with the  *)
(* given id, or removes the element that has it.  An element keeps its     *)
(* content and listeners when it leaves the document.                      *)
(***************************************************************************)
InsertElement(id, c) ==
    /\ mutations < MaxMutations
    /\ nextElem <= MaxElems
    /\ doc[id] = NULL
    /\ doc' = [doc EXCEPT ![id] = nextElem]
    /\ innerHTML' = [innerHTML EXCEPT ![nextElem] = c]
    /\ initialHTML' = [initialHTML EXCEPT ![nextElem] = c]
    /\ nextElem' = nextElem + 1
    /\ mutations' = mutations + 1
    /\ UNCHANGED << readyState, listeners, mainButton, output, console,
                    uncaught, clock, tzOffset, hour12, initAt, clickAt,
                    prevClickAt, ticks, storage, seen, lastWrites >>

RemoveElement(id) ==
    /\ mutations < MaxMutations
    /\ doc[id] # NULL
    /\ doc' = [doc EXCEPT ![id] = NULL]
    /\ mutations' = mutations + 1
    /\ UNCHANGED << readyState, innerHTML, listeners, mainButton, output,
                    console, uncaught, clock, tzOffset, hour12, nextElem,
                    initialHTML, initAt, clickAt, prevClickAt, ticks, storage,
                    seen, lastWrites >>

Next ==
    \/ DOMContentLoaded
    \/ \E id \in Ids : Click(id)
    \/ \E d \in ClockSteps : Tick(d)
    \/ \E id \in Ids : \E c \in ContentsFor(id) : InsertElement(id, c)
    \/ \E id \in Ids : RemoveElement(id)

Spec == Init /\ [][Next]_vars

(***************************************************************************)
(* The user reloads the page: the browser discards the document with its   *)
(* elements, listeners and script state and parses the same page anew,     *)
(* with the control and the display target as its markup has them; the     *)
(* script is evaluated again.  The clock and the origin's storage go on.   *)
(* The reload explored is the first one that follows an activation which   *)
(* wrote a greeting; a reload before that leaves a page like a first load. *)
(***************************************************************************)
Reload ==
    /\ clickAt # NONE
    /\ lastWrites > 0
    /\ "reloaded" \notin seen
    /\ readyState' = "loading"
    /\ doc' = [id \in Ids |-> IF id = "mainButton" THEN 1 ELSE 2]
    /\ innerHTML' = [e \in Elements |->
                       IF e = 1 THEN ButtonLabel
                       ELSE IF e = 2 THEN initialHTML[output] ELSE ""]
    /\ initialHTML' = innerHTML'
    /\ listeners' = [e \in Elements |-> << >>]
    /\ mainButton' = NULL
    /\ output' = NULL
    /\ console' = << >>
    /\ uncaught' = << >>
    /\ nextElem' = 3
    /\ initAt' = NONE
    /\ clickAt' = NONE
    /\ prevClickAt' = NONE
    /\ lastWrites' = 0
    /\ seen' = {"reloaded"}
    /\ UNCHANGED << clock, tzOffset, hour12, ticks, mutations, storage >>

NextReload ==
    \/ Next
    \/ Reload

SpecReload == Init /\ [][NextReload]_vars

(***************************************************************************)
(* The component's two states, and the vocabulary of the properties.       *)
(***************************************************************************)
Bound == \E e \in Elements : listeners[e] # << >>
Unbound == ~Bound

\* The DOMContentLoaded listener has run
InitRan == readyState = "interactive"

\* ... and both of its lookups returned an element
FoundBoth == InitRan /\ mainButton # NULL /\ output # NULL

\* A step in which the control found at initialization is clicked
ActivationStep ==
    /\ InitRan
    /\ mainButton # NULL
    /\ doc["mainButton"] = mainButton
    /\ clickAt' = clock
    /\ prevClickAt' = clickAt
    /\ UNCHANGED << readyState, doc, clock, mainButton, output, console,
                    nextElem, ticks, mutations >>

\* Elements the page has created so far
Created == {e \in Elements : e < nextElem}

GreetingPrefix == "<p>Hello from Habit Tracker Pro! Button clicked at "
GreetingSuffix == "</p>"

\* The text between the fixed prefix and the closing tag of a greeting
TimeSubstring(s) ==
    SubSeq(s, Len(GreetingPrefix) + 1, Len(s) - Len(GreetingSuffix))

\* s is one whole greeting paragraph and nothing else
CompleteGreeting(s) ==
    /\ Len(s) > Len(GreetingPrefix) + Len(GreetingSuffix)
    /\ SubSeq(s, 1, Len(GreetingPrefix)) = GreetingPrefix
    /\ SubSeq(s, Len(s) - Len(GreetingSuffix) + 1, Len(s)) = GreetingSuffix
    /\ ~Contains(TimeSubstring(s), "<")

MsPerDay == MsPerSecond * SecondsPerDay

----------------------------------------------------------------------------
\* C1: when initialization found both elements, then after exactly one click
\* on the control the display target no longer holds its earlier content: it
\* holds a string that contains "Hello from Habit Tracker Pro!".
C1_OneClickShowsHello ==
    (FoundBoth /\ clickAt # NONE /\ prevClickAt = NONE)
        => /\ Contains(innerHTML[output], "Hello from Habit Tracker Pro!")
           /\ innerHTML[output] # initialHTML[output]
           /\ initialHTML[output] # ""
                => ~Contains(innerHTML[output], initialHTML[output])

C1_Witness ==
    /\ FoundBoth
    /\ clickAt # NONE
    /\ prevClickAt = NONE
    /\ initialHTML[output] = "<p>Ready</p>"
    /\ Contains(innerHTML[output], HelloText)

\* C2: after any number N >= 1 of activations the display target holds
\* exactly the greeting of the most recent activation, a function of the
\* clock at that click alone: the earlier content and the earlier clicks
\* leave no trace.
C2_OnlyLatestActivation ==
    (FoundBoth /\ clickAt # NONE) => innerHTML[output] = Greeting(clickAt)

C2_Witness ==
    /\ FoundBoth
    /\ prevClickAt # NONE
    /\ Greeting(prevClickAt) # Greeting(clickAt)
    /\ initialHTML[output] # ""
    /\ innerHTML[output] = Greeting(clickAt)

\* C3: when initialization misses the control, the display target or both,
\* it raises no error, attaches no click listener to any element, and the
\* component is Unbound from then on.
C3_MissingElementStaysUnbound ==
    (InitRan /\ (mainButton = NULL \/ output = NULL))
        => /\ Unbound
           /\ \A e \in Elements : Len(listeners[e]) = 0
           /\ uncaught = << >>

C3_Witness ==
    /\ InitRan
    /\ mainButton = NULL
    /\ output # NULL
    /\ doc["mainButton"] # NULL
    /\ Unbound

\* C4: in a document that had the control but no 'output' element at
\* initialization, clicks on the control raise no error and write nothing:
\* every element keeps the content it was created with.
C4_NoOutputClickIsInert ==
    (InitRan /\ mainButton # NULL /\ output = NULL)
        => /\ uncaught = << >>
           /\ \A e \in Created : innerHTML[e] = initialHTML[e]

C4_Witness ==
    /\ InitRan
    /\ mainButton # NULL
    /\ output = NULL
    /\ prevClickAt # NONE
    /\ uncaught = << >>

\* C5 as stated: two activations at least one second apart, whatever the
\* separation, show different time substrings.
C5_AnySeparationDiffers ==
    [][ (FoundBoth /\ ActivationStep /\ clickAt # NONE
            /\ clock - clickAt >= MsPerSecond)
        => TimeSubstring(innerHTML'[output]) # TimeSubstring(innerHTML[output])
      ]_vars

\* C5, amended: two activations at least one second and at most 23 hours 59
\* minutes 59 seconds apart show different time substrings, and two
\* activations a whole number of days apart show the same one (the time zone
\* offset being the same at both).
C5_WithinADayDiffers ==
    [][ (FoundBoth /\ ActivationStep /\ clickAt # NONE)
        => /\ (clock - clickAt >= MsPerSecond
                  /\ clock - clickAt <= MsPerDay - MsPerSecond)
                => TimeSubstring(innerHTML'[output])
                       # TimeSubstring(innerHTML[output])
           /\ (clock - clickAt) % MsPerDay = 0
                => TimeSubstring(innerHTML'[output])
                       = TimeSubstring(innerHTML[output])
      ]_vars

C5_Witness ==
    /\ FoundBoth
    /\ prevClickAt # NONE
    /\ clickAt - prevClickAt = 12 * 3600 * MsPerSecond
    /\ hour12
    /\ CompleteGreeting(innerHTML[output])
    /\ TimeSubstring(innerHTML[output]) # toLocaleTimeString(prevClickAt)

\* C6: the component becomes Bound only in the step that runs the
\* DOMContentLoaded listener, that step runs at most once, and it binds
\* exactly when both elements are in the document at that moment; so Bound
\* holds exactly when initialization has run and found both elements.
C6_BoundOnlyAtInit ==
    /\ [](Bound <=> FoundBoth)
    /\ [][ /\ (Unbound /\ Bound')
              => (readyState = "loading" /\ readyState' = "interactive")
           /\ (readyState = "loading" /\ readyState' = "interactive")
              => (Bound' <=> (doc["mainButton"] # NULL /\ doc["output"] # NULL))
           /\ InitRan => (InitRan' /\ listeners' = listeners)
         ]_vars

C6_Witness ==
    /\ Bound
    /\ FoundBoth
    /\ Len(listeners[mainButton]) = 1
    /\ clickAt = NONE

\* C7: once Bound the component stays Bound: no step detaches the listener,
\* and every later activation writes its greeting without raising an error.
C7_BoundForever ==
    [][ Bound => /\ Bound'
                 /\ listeners' = listeners
                 /\ ActivationStep
                      => /\ CompleteGreeting(innerHTML'[output])
                         /\ uncaught' = uncaught
                         /\ uncaught = << >>
      ]_vars

C7_Witness ==
    /\ Bound
    /\ prevClickAt # NONE
    /\ prevClickAt < clickAt
    /\ CompleteGreeting(innerHTML[output])
    /\ mutations > 0

\* C8: an activation at clock time t leaves the display target holding
\* exactly "<p>Hello from Habit Tracker Pro! Button clicked at " + format(t)
\* + "</p>", format(t) being the local time of day of t; at 14:30:00 local
\* time in a 12-hour locale the paragraph reads "Hello from Habit Tracker
\* Pro! Button clicked at 2:30:00 PM".
C8_ExactMarkup ==
    (FoundBoth /\ clickAt # NONE)
        => /\ innerHTML[output]
                = "<p>Hello from Habit Tracker Pro! Button clicked at "
                      \o toLocaleTimeString(clickAt) \o "</p>"
           /\ (hour12 /\ SecondOfDay(clickAt) = 14 * 3600 + 30 * 60)
                => innerHTML[output]
                     = "<p>Hello from Habit Tracker Pro! Button clicked at 2:30:00 PM</p>"
           /\ (~hour12 /\ SecondOfDay(clickAt) = 14 * 3600 + 30 * 60)
                => TimeSubstring(innerHTML[output]) = "14:30:00"
           /\ (hour12 /\ SecondOfDay(clickAt) = 0)
                => TimeSubstring(innerHTML[output]) = "12:00:00 AM"

C8_Witness ==
    /\ FoundBoth
    /\ hour12
    /\ clickAt # NONE
    /\ SecondOfDay(clickAt) = 14 * 3600 + 30 * 60
    /\ initialHTML[output] # ""
    /\ innerHTML[output]
         = "<p>Hello from Habit Tracker Pro! Button clicked at 2:30:00 PM</p>"

\* C9: the time an activation shows is the clock at the moment of that
\* click; when the clock has advanced since initialization or since the
\* previous click, the display follows it.
C9_TimeReadAtClick ==
    (FoundBoth /\ clickAt # NONE)
        => /\ TimeSubstring(innerHTML[output]) = toLocaleTimeString(clickAt)
           /\ \A t \in {initAt, prevClickAt} \ {NONE} :
                 toLocaleTimeString(t) # toLocaleTimeString(clickAt)
                    => TimeSubstring(innerHTML[output]) # toLocaleTimeString(t)

C9_Witness ==
    /\ FoundBoth
    /\ prevClickAt # NONE
    /\ initAt < prevClickAt
    /\ prevClickAt < clickAt
    /\ toLocaleTimeString(initAt) # toLocaleTimeString(clickAt)
    /\ toLocaleTimeString(prevClickAt) # toLocaleTimeString(clickAt)
    /\ TimeSubstring(innerHTML[output]) = toLocaleTimeString(clickAt)

\* C10: whatever the interleaving of clicks, clock steps and document
\* changes, the content of every element is either the content it was
\* created with or, for the display target, one complete greeting of one
\* activation; no element ever holds part of a greeting or two of them.
C10_WholeGreetingOrInitial ==
    \A e \in Created :
        \/ innerHTML[e] = initialHTML[e]
        \/ /\ e = output
           /\ clickAt # NONE
           /\ CompleteGreeting(innerHTML[e])
           /\ TimeSubstring(innerHTML[e]) = toLocaleTimeString(clickAt)

C10_Witness ==
    /\ FoundBoth
    /\ prevClickAt # NONE
    /\ ticks > 0
    /\ initialHTML[output] # ""
    /\ innerHTML[output] # initialHTML[output]
    /\ CompleteGreeting(innerHTML[output])

----------------------------------------------------------------------------
\* A step in which the record of activations advances, and the reload step
ActivationRecorded ==
    clickAt' # NONE /\ << clickAt', prevClickAt' >> # << clickAt, prevClickAt >>

ReloadStep == "reloaded" \in seen' /\ "reloaded" \notin seen

\* C11: an activation changes the content of the display target and nothing
\* else: the listeners, the document, the control and every other element,
\* the console and the script's own constants stay as they were; no step
\* ever writes to the origin's storage, and after a reload of the page no
\* element shows anything of the activations made before it.
C11_OnlyDisplayChanges ==
    /\ []( /\ storage = << >>
           /\ ("reloaded" \in seen /\ clickAt = NONE)
                => \A e \in Created : /\ innerHTML[e] = initialHTML[e]
                                      /\ ~Contains(innerHTML[e], HelloText) )
    /\ [][ /\ storage' = storage
           /\ ActivationRecorded
                => /\ listeners' = listeners
                   /\ doc' = doc
                   /\ readyState' = readyState
                   /\ mainButton' = mainButton
                   /\ output' = output
                   /\ console' = console
                   /\ \A e \in Elements \ {output} : innerHTML'[e] = innerHTML[e]
           /\ ReloadStep
                => /\ \A e \in Elements : listeners'[e] = << >>
                   /\ \A e \in Elements : ~Contains(innerHTML'[e], HelloText)
         ]_vars

C11_Witness ==
    /\ "reloaded" \in seen
    /\ FoundBoth
    /\ clickAt = NONE
    /\ storage = << >>
    /\ initialHTML[output] # ""
    /\ innerHTML[output] = initialHTML[output]

\* C12: the startup notice is logged exactly once by every initialization,
\* whether or not the elements exist; when a required element is missing it
\* stays the only message of the page, and no error is ever reported.
C12_OnlyStartupNotice ==
    /\ ~InitRan => console = << >>
    /\ InitRan => console = << "Habit Tracker Pro loaded successfully!" >>
    /\ (InitRan /\ (mainButton = NULL \/ output = NULL)) => uncaught = << >>

C12_Witness ==
    /\ InitRan
    /\ mainButton = NULL
    /\ output = NULL
    /\ console = << StartupNotice >>
    /\ uncaught = << >>
    /\ clock > initAt
    /\ "late" \in seen

\* C13: an activation at the clock reading of the activation before it
\* leaves the display target, and every other element, exactly as that
\* earlier activation left them.
C13_SameClockIdempotent ==
    [][ (FoundBoth /\ ActivationStep /\ clickAt = clock)
        => /\ innerHTML' = innerHTML
           /\ uncaught' = uncaught
           /\ listeners' = listeners
      ]_vars

C13_Witness ==
    /\ FoundBoth
    /\ clickAt # NONE
    /\ prevClickAt = clickAt
    /\ initialHTML[output] # ""
    /\ innerHTML[output] = Greeting(clickAt)

\* C14: the lookups are made once, at initialization: their results never
\* change afterwards, and when one of them found nothing the component never
\* binds, so that a click on a control added later writes no greeting
\* anywhere.
C14_LookupsOnlyAtInit ==
    /\ []( (InitRan /\ (mainButton = NULL \/ output = NULL))
              => /\ \A e \in Elements : listeners[e] = << >>
                 /\ \A e \in Created : ~Contains(innerHTML[e], HelloText)
                 /\ lastWrites = 0 )
    /\ [][ InitRan => (mainButton' = mainButton /\ output' = output) ]_vars

C14_Witness ==
    /\ InitRan
    /\ mainButton = NULL
    /\ "late" \in seen
    /\ doc["mainButton"] # NULL
    /\ doc["output"] # NULL
    /\ innerHTML[doc["output"]] = initialHTML[doc["output"]]

\* C15: nothing of the component runs before the DOMContentLoaded signal:
\* until then nothing is looked up, logged or bound, and a click on the
\* control changes no content; such a click is not replayed when the
\* component binds later.
C15_NothingBeforeSignal ==
    /\ ~InitRan
          => /\ Unbound
             /\ mainButton = NULL
             /\ output = NULL
             /\ console = << >>
             /\ \A e \in Created : innerHTML[e] = initialHTML[e]
    /\ ("early" \in seen /\ clickAt = NONE)
          => /\ lastWrites = 0
             /\ \A e \in Created : innerHTML[e] = initialHTML[e]

C15_Witness ==
    /\ "early" \in seen
    /\ FoundBoth
    /\ Bound
    /\ clickAt = NONE
    /\ innerHTML[output] = initialHTML[output]

\* C16: initialization does not write to the display target: the step that
\* runs it leaves every content as it was, and until the first activation
\* every element holds the content it was created with.
C16_InitWritesNothing ==
    /\ [](clickAt = NONE => \A e \in Created : innerHTML[e] = initialHTML[e])
    /\ [][ (readyState = "loading" /\ readyState' = "interactive")
              => innerHTML' = innerHTML ]_vars

C16_Witness ==
    /\ FoundBoth
    /\ Bound
    /\ clickAt = NONE
    /\ clock > initAt
    /\ initialHTML[output] # ""
    /\ innerHTML[output] = initialHTML[output]

\* C17: the component attaches at most one click listener, to one element,
\* so an activation in the Bound state assigns the display target's content
\* exactly once.
C17_OneListenerOneWrite ==
    /\ \A e \in Elements : Len(listeners[e]) <= 1
    /\ Cardinality({e \in Elements : listeners[e] # << >>}) <= 1
    /\ (FoundBoth /\ clickAt # NONE) => lastWrites = 1

C17_Witness ==
    /\ FoundBoth
    /\ prevClickAt # NONE
    /\ Len(listeners[mainButton]) = 1
    /\ lastWrites = 1

\* C18: the listener writes to the element found at initialization: when
\* that element has left the document, the id 'output' being free or held by
\* a new element, an activation raises no error, puts its greeting into the
\* element found at initialization and leaves every other element's content,
\* that of the new 'output' included, unchanged.
C18_WritesToCapturedElement ==
    /\ []( "replaced" \in seen => uncaught = << >> )
    /\ [][ (FoundBoth /\ ActivationStep /\ doc["output"] # output)
              => /\ innerHTML'[output]
                      = "<p>Hello from Habit Tracker Pro! Button clicked at "
                            \o toLocaleTimeString(clock) \o "</p>"
                 /\ \A e \in Elements \ {output} : innerHTML'[e] = innerHTML[e]
                 /\ uncaught' = uncaught
         ]_vars

C18_Witness ==
    /\ FoundBoth
    /\ "replaced" \in seen
    /\ doc["output"] \notin {NULL, output}
    /\ innerHTML[output] = Greeting(clickAt)
    /\ initialHTML[doc["output"]] # ""
    /\ innerHTML[doc["output"]] = initialHTML[doc["output"]]
    /\ uncaught = << >>

====
